---- MODULE Spec2Model ----
(***************************************************************************)
(* Orders service: the order store, the service layer                      *)
(* (internal/service/order.go), the Redis Streams publisher                *)
(* (internal/events/publisher.go), the consumer-group dispatch loop        *)
(* (internal/events consumer) and the shutdown sequence of cmd/api/main.go.*)
(*                                                                         *)
(* Library semantics relied on (go-redis, database/sql): a call that is    *)
(* made with an already cancelled context returns the context's error and  *)
(* has no effect on the server; XREADGROUP with ">" returns only entries   *)
(* never delivered to the group, in stream order, and records them as      *)
(* pending; XACK removes an entry from the pending set.                    *)
(***************************************************************************)
EXTENDS Naturals, Sequences, FiniteSets, TLC

\* ---------------------------------------------------------------- bounds
MaxOrders  == 2   \* orders ever created (uuid.New() draws)
MaxStream  == 3   \* entries the stream holds before XADD is refused
MaxClients == 1   \* API requests in flight at the same time
MaxFaults  == 1   \* store and transport calls that fail in all
MaxForeign == 1   \* entries appended by producers other than RedisPublisher
MaxLeft    == 1   \* orders (and their events) an earlier run has left behind
MaxCallers == 2   \* API requests served at the same time (ConcurrentSpec)

\* ------------------------------------------------------ program constants
ReadCount == 10   \* XReadGroupArgs.Count

OrderCreatedChannel == "order.created"
OrderUpdatedChannel == "order.updated"
OrderDeletedChannel == "order.deleted"
ConfirmedStatus     == "confirmed"
PendingStatus       == "pending"

OrderIds == 1 .. MaxOrders
Clients  == 1 .. MaxClients
EntryIds == 1 .. MaxStream

\* -------------------------------------------------------------- model.Order
\* id 0 is the empty string, created_at 0 the zero time.
NoOrder == [id |-> 0, product |-> "", quantity |-> 0, status |-> "", created_at |-> 0]

\* A create request with the values its gRPC metadata holds under
\* "x-idempotency-key" (md): every request of the model carries the same key.
CreateRequests == { [product |-> "Laptop", quantity |-> 1, md |-> << "k1" >>] }
UpdateRequests == { [product |-> "Phone", quantity |-> 2, status |-> "shipped"] }

\* ------------------------------------------------------------ wire values
\* A stream field as go-redis hands it over: an interface{} holding a string
\* or nothing.  An event name is text; a payload is JSON text, modelled by the
\* object it spells (json |-> FALSE: text that is no JSON object).
NilEvent   == [type |-> "nil", val |-> ""]
NilPayload == [type |-> "nil",
               val |-> [json |-> FALSE, id |-> 0, product |-> "", quantity |-> 0,
                        status |-> "", created_at |-> 0]]
GarbageText == [json |-> FALSE, id |-> 0, product |-> "", quantity |-> 0,
                status |-> "", created_at |-> 0]

StringEvent(s)   == [type |-> "string", val |-> s]
StringPayload(t) == [type |-> "string", val |-> t]

\* json.Marshal(order): the JSON object with the struct's five tagged fields.
Marshal(o) ==
    [json |-> TRUE, id |-> o.id, product |-> o.product, quantity |-> o.quantity,
     status |-> o.status, created_at |-> o.created_at]

\* A decoder that would accept any text.
UnmarshalAnyText(t) ==
    [ok |-> TRUE,
     order |-> [id |-> t.id, product |-> t.product, quantity |-> t.quantity,
                status |-> t.status, created_at |-> t.created_at]]

\* json.Unmarshal(payload, &order): ok is FALSE when the text is not JSON.
Unmarshal(t) ==
    IF t.json
    THEN [ok |-> TRUE,
          order |-> [id |-> t.id, product |-> t.product, quantity |-> t.quantity,
                     status |-> t.status, created_at |-> t.created_at]]
    ELSE [ok |-> FALSE, order |-> NoOrder]

\* Entries a producer other than RedisPublisher may append to the stream.
ForeignEntries ==
    { [event |-> NilEvent, payload |-> StringPayload(GarbageText)],
      [event |-> StringEvent(OrderCreatedChannel), payload |-> NilPayload],
      [event |-> StringEvent(OrderCreatedChannel), payload |-> StringPayload(GarbageText)] }

VARIABLES
    orders,         \* the orders table: id -> row, NoOrder when absent
    created,        \* orders created so far (the next uuid, the clock)
    idemKeys,       \* per CreateOrder call so far: the idempotency key it logged
    stream,         \* the Redis stream "orders": entry id = position
    groupExists,    \* the consumer group "order-processors" exists
    lastDelivered,  \* the group's last-delivered id
    pending,        \* the group's pending entries list
    mainPc,         \* main: "serving", "stopping" (after cancel()), "exited"
    cancelled,      \* ctx of main is cancelled
    pc,             \* the consumer goroutine's position
    batch,          \* entries of the current read still to process
    cur,            \* entry processMessage is working on (0: none)
    curOrder,       \* order decoded by handleOrderCreated / read by the callback
    creq,           \* per API client: the request in flight
    foreign,        \* entries appended by other producers so far
    log,            \* history: what the consumer did, in order
    faults          \* store and transport calls that have failed so far

vars == << orders, created, idemKeys, stream, groupExists, lastDelivered, pending, mainPc,
           cancelled, pc, batch, cur, curOrder, creq, foreign, log,
           faults >>

storeVars    == << orders, created, idemKeys >>
redisVars    == << stream, groupExists, lastDelivered, pending >>
mainVars     == << mainPc, cancelled >>
consumerVars == << pc, batch, cur, curOrder >>

\* A request: op and step say where the service method is, order is its local
\* *model.Order, wrote / published / result are set when it returns.
IdleReq == [op |-> "idle", step |-> "idle", order |-> NoOrder, wrote |-> FALSE,
            published |-> FALSE, result |-> ""]

Init ==
    /\ orders = [i \in OrderIds |-> NoOrder]
    /\ created = 0
    /\ idemKeys = << >>
    /\ stream = << >>
    /\ groupExists = FALSE
    /\ lastDelivered = 0
    /\ pending = {}
    /\ mainPc = "serving"
    /\ cancelled = FALSE
    /\ pc = "start"
    /\ batch = << >>
    /\ cur = 0
    /\ curOrder = NoOrder
    /\ creq = [c \in Clients |-> IdleReq]
    /\ foreign = 0
    /\ log = << >>
    /\ faults = 0

\* A repository that would find a row under every id.
RepoHasAnyId(id) == id \in OrderIds

\* ------------------------------------------------------------- repository
\* OrderRepository over the orders table (Create / GetByID / Update / Delete).
RepoHas(id) == id \in OrderIds /\ orders[id] # NoOrder

\* An insert that would always write the first row.
RepoCreateFirstRow(o) == [orders EXCEPT ![1] = o]

RepoCreate(o) == [orders EXCEPT ![o.id] = o]

\* An update that would write nothing.
RepoUpdateLost(o) == orders

\* Update: the row with the order's id is replaced; a missing row is ErrNoRows.
RepoUpdate(o) == [orders EXCEPT ![o.id] = o]

RepoDelete(id) == [orders EXCEPT ![id] = NoOrder]

\* --------------------------------------------------------------- publisher
\* A publisher that would hand XADD the marshalled bytes as they are.
PublishEntryBytes(channel, message) ==
    [event |-> StringEvent(channel),
     payload |-> [type |-> "bytes", val |-> Marshal(message)]]

\* RedisPublisher.Publish: XADD to the one stream, fields "event" and "payload".
PublishEntry(channel, message) ==
    [event |-> StringEvent(channel), payload |-> StringPayload(Marshal(message))]

\* A service that would publish every change as order.created.
ChannelOfAlwaysCreated(op) == OrderCreatedChannel

ChannelOf(op) ==
    CASE op = "create" -> OrderCreatedChannel
      [] op = "update" -> OrderUpdatedChannel
      [] op = "delete" -> OrderDeletedChannel

\* A store or transport call may fail while the fault budget lasts.
Outcomes == { ok \in BOOLEAN : ok \/ faults < MaxFaults }

Fault(ok) == faults' = IF ok THEN faults ELSE faults + 1

\* Requests that have been accepted and may still XADD.
InFlight == Cardinality({ c \in DOMAIN creq : creq[c].step \in {"write", "publish"} })

\* The stream has room for every request in flight and one more entry.
StreamHasRoom == Len(stream) + InFlight < MaxStream

\* A service method that would drop the error it got from the store.
ReturnDropsError(r, wrote, published, result) ==
    [r EXCEPT !.step = "return", !.wrote = wrote, !.published = published,
              !.result = "ok"]

\* The service method returns (result, and what it had done by then).
Return(r, wrote, published, result) ==
    [r EXCEPT !.step = "return", !.wrote = wrote, !.published = published,
              !.result = result]

\* ----------------------------------------------------------- service layer
\* getIdempotencyKey: the first value under "x-idempotency-key", "" if none.
getIdempotencyKey(md) == IF Len(md) > 0 THEN md[1] ELSE ""

\* Server.CreateOrder (the key goes to the request's logger and nowhere else)
\* and OrderService.CreateOrder up to and including repo.Create.
CreateOrder(c, req) ==
    /\ mainPc = "serving"
    /\ creq[c].op = "idle"
    /\ created < MaxOrders
    /\ StreamHasRoom
    /\ LET order == [id |-> created + 1, product |-> req.product,
                     quantity |-> req.quantity, status |-> PendingStatus,
                     created_at |-> created + 1]
           r == [IdleReq EXCEPT !.op = "create", !.order = order]
       IN  \E ok \in Outcomes :
             /\ Fault(ok)
             /\ created' = created + 1
             /\ idemKeys' = Append(idemKeys, getIdempotencyKey(req.md))
             /\ IF ok
                THEN /\ orders' = RepoCreate(order)
                     /\ creq' = [creq EXCEPT ![c] = [r EXCEPT !.step = "publish"]]
                ELSE /\ creq' = [creq EXCEPT ![c] = Return(r, FALSE, FALSE, "err")]
                     /\ UNCHANGED orders
    /\ UNCHANGED << redisVars, mainVars, consumerVars, foreign, log >>

\* OrderService.UpdateOrder: repo.GetByID and the three field assignments.
UpdateOrderGet(c, id, req) ==
    /\ mainPc = "serving"
    /\ creq[c].op = "idle"
    /\ StreamHasRoom
    /\ LET r == [IdleReq EXCEPT !.op = "update", !.order = [NoOrder EXCEPT !.id = id]]
       IN  \E ok \in Outcomes :
             /\ Fault(ok)
             /\ creq' = [creq EXCEPT ![c] =
                  IF ~ok THEN Return(r, FALSE, FALSE, "err")
                  ELSE IF ~RepoHas(id) THEN Return(r, FALSE, FALSE, "notfound")
                  ELSE [r EXCEPT !.step = "write",
                                 !.order = [orders[id] EXCEPT !.product = req.product,
                                                              !.quantity = req.quantity,
                                                              !.status = req.status]]]
    /\ UNCHANGED << storeVars, redisVars, mainVars, consumerVars, foreign, log >>

\* OrderService.UpdateOrder: repo.Update.
UpdateOrderWrite(c) ==
    /\ creq[c].op = "update" /\ creq[c].step = "write"
    /\ LET r == creq[c]
       IN  \E ok \in Outcomes :
             /\ Fault(ok)
             /\ IF ok /\ RepoHas(r.order.id)
                THEN /\ orders' = RepoUpdate(r.order)
                     /\ creq' = [creq EXCEPT ![c].step = "publish"]
                ELSE /\ creq' = [creq EXCEPT ![c] =
                           Return(r, FALSE, FALSE, IF ok THEN "notfound" ELSE "err")]
                     /\ UNCHANGED orders
    /\ UNCHANGED << created, idemKeys, redisVars, mainVars, consumerVars, foreign, log >>

\* OrderService.DeleteOrder: repo.GetByID.
DeleteOrderGet(c, id) ==
    /\ mainPc = "serving"
    /\ creq[c].op = "idle"
    /\ StreamHasRoom
    /\ LET r == [IdleReq EXCEPT !.op = "delete", !.order = [NoOrder EXCEPT !.id = id]]
       IN  \E ok \in Outcomes :
             /\ Fault(ok)
             /\ creq' = [creq EXCEPT ![c] =
                  IF ~ok THEN Return(r, FALSE, FALSE, "err")
                  ELSE IF ~RepoHas(id) THEN Return(r, FALSE, FALSE, "notfound")
                  ELSE [r EXCEPT !.step = "write", !.order = orders[id]]]
    /\ UNCHANGED << storeVars, redisVars, mainVars, consumerVars, foreign, log >>

\* OrderService.DeleteOrder: repo.Delete.
DeleteOrderWrite(c) ==
    /\ creq[c].op = "delete" /\ creq[c].step = "write"
    /\ LET r == creq[c]
       IN  \E ok \in Outcomes :
             /\ Fault(ok)
             /\ IF ok /\ RepoHas(r.order.id)
                THEN /\ orders' = RepoDelete(r.order.id)
                     /\ creq' = [creq EXCEPT ![c].step = "publish"]
                ELSE /\ creq' = [creq EXCEPT ![c] =
                           Return(r, FALSE, FALSE, IF ok THEN "notfound" ELSE "err")]
                     /\ UNCHANGED orders
    /\ UNCHANGED << created, idemKeys, redisVars, mainVars, consumerVars, foreign, log >>

\* A service method that would fail its caller when Publish fails.
AfterPublishUnwind(c, published) ==
    /\ creq' = [creq EXCEPT ![c] =
          Return(creq[c], published, published, IF published THEN "ok" ELSE "err")]
    /\ UNCHANGED storeVars

\* What a service method does with Publish's error: it logs it and returns
\* the success of the store write.
AfterPublish(c, published) ==
    /\ creq' = [creq EXCEPT ![c] = Return(creq[c], TRUE, published, "ok")]
    /\ UNCHANGED storeVars

\* The tail of CreateOrder / UpdateOrder / DeleteOrder: publisher.Publish
\* (json.Marshal, XADD), then what follows it.
ServicePublish(c) ==
    /\ creq[c].step = "publish"
    /\ \E ok \in Outcomes :
         /\ Fault(ok)
         /\ stream' = IF ok
                      THEN Append(stream, PublishEntry(ChannelOf(creq[c].op), creq[c].order))
                      ELSE stream
         /\ AfterPublish(c, ok)
    /\ UNCHANGED << groupExists, lastDelivered, pending, mainVars, consumerVars,
                    foreign, log >>

\* The transport layer has written the response: the client is free again.
ServiceReturn(c) ==
    /\ creq[c].step = "return"
    /\ creq' = [creq EXCEPT ![c] = IdleReq]
    /\ UNCHANGED << storeVars, redisVars, mainVars, consumerVars, foreign, log, faults >>

\* Another producer XADDs an entry of its own to the stream.
ForeignXAdd(e) ==
    /\ foreign < MaxForeign
    /\ StreamHasRoom
    /\ stream' = Append(stream, e)
    /\ foreign' = foreign + 1
    /\ UNCHANGED << storeVars, groupExists, lastDelivered, pending, mainVars,
                    consumerVars, creq, log, faults >>

\* ---------------------------------------------------------------- consumer
\* One history record per consumer event on entry e.
Ev(ev, e) == [ev |-> ev, e |-> e, id |-> 0, status |-> "", ok |-> TRUE]

ConsumerAlive == mainPc # "exited"

\* A client library that would not look at the context before a call.
CtxOutcomesIgnoreCancel ==
    {"ok"} \cup (IF faults < MaxFaults THEN {"fail"} ELSE {})

\* How a call made with the consumer's ctx can end: "ctx" (the context is
\* cancelled: its error comes back and the server sees nothing), "fail" (a
\* store or transport error) or "ok".
CtxOutcomes ==
    IF cancelled THEN {"ctx"}
    ELSE {"ok"} \cup (IF faults < MaxFaults THEN {"fail"} ELSE {})

CtxFault(o) == faults' = IF o = "fail" THEN faults + 1 ELSE faults

\* A server that would hand out entries to a reader whose group does not exist.
AvailableWithoutGroup == lastDelivered < Len(stream)

\* Entries the group has never been handed: what XREADGROUP ">" can return.
Available == groupExists /\ lastDelivered < Len(stream)

Min(a, b) == IF a < b THEN a ELSE b

\* A server that would return the newest entry first.
NextIdsReversed ==
    LET n == Min(ReadCount, Len(stream) - lastDelivered)
    IN  [k \in 1 .. n |-> lastDelivered + n + 1 - k]

\* The ids one XREADGROUP returns: up to Count entries after the cursor.
NextIds == LET n == Min(ReadCount, Len(stream) - lastDelivered)
           IN  [k \in 1 .. n |-> lastDelivered + k]

\* A read that would return the stream from its start (an id of "0" in place
\* of ">"), delivered entries included.
DeliverFromStart ==
    /\ batch' = [k \in 1 .. (lastDelivered + Len(NextIds)) |-> k]
    /\ pending' = pending \cup { NextIds[k] : k \in 1 .. Len(NextIds) }
    /\ lastDelivered' = lastDelivered + Len(NextIds)
    /\ pc' = "batch"

\* The server's side of an XREADGROUP that finds entries: they become pending
\* and the cursor moves past them.
Deliver ==
    /\ batch' = NextIds
    /\ pending' = pending \cup { NextIds[k] : k \in 1 .. Len(NextIds) }
    /\ lastDelivered' = lastDelivered + Len(NextIds)
    /\ pc' = "batch"

\* A group that would start at the end of the stream ("$").
GroupStartAtEnd == Len(stream)

\* The error text of XGroupCreateMkStream ("": no error): the context's or the
\* transport's error when the call does not get through, else the server's
\* answer, which is BUSYGROUP when the group is there already.
BusyGroup == "BUSYGROUP Consumer Group name already exists"

GroupCreateErr(o) ==
    CASE o = "ctx"  -> "context canceled"
      [] o = "fail" -> "connection refused"
      [] o = "ok"   -> IF groupExists THEN BusyGroup ELSE ""

\* The id a new group starts after: the "0" passed to XGroupCreateMkStream.
GroupStartId == 0

\* A test that would take the server's BUSYGROUP answer for a failure.
CreateFailedOnAnyError(err) == err # ""

\* Subscribe's test on that error: err != nil && err.Error() != "BUSYGROUP ...".
CreateFailed(err) == err # "" /\ err # BusyGroup

\* Subscribe: XGroupCreateMkStream(ctx, StreamName, ConsumerGroup, "0"); an
\* error is logged unless it is BUSYGROUP, and the loop is entered either way.
\* The history record keeps the error text (status) and whether the error
\* branch was taken (ok: it was not).
GroupCreate ==
    /\ ConsumerAlive /\ pc = "start"
    /\ pc' = "check"
    /\ \E o \in CtxOutcomes :
         /\ CtxFault(o)
         /\ log' = Append(log, [Ev("group", 0) EXCEPT
                                  !.status = GroupCreateErr(o),
                                  !.ok = ~CreateFailed(GroupCreateErr(o))])
         /\ IF o = "ok" /\ ~groupExists
            THEN /\ groupExists' = TRUE
                 /\ lastDelivered' = GroupStartId
                 /\ pending' = {}
            ELSE UNCHANGED << groupExists, lastDelivered, pending >>
    /\ UNCHANGED << storeVars, stream, mainVars, batch, cur, curOrder, creq, foreign >>

\* Subscribe: the select on ctx.Done() at the top of the loop.
LoopCheck ==
    /\ ConsumerAlive /\ pc = "check"
    /\ pc' = IF cancelled THEN "returned" ELSE "read"
    /\ UNCHANGED << storeVars, redisVars, mainVars, batch, cur, curOrder, creq,
                    foreign, log, faults >>

\* Subscribe: the call c.client.XReadGroup(ctx, ...).  With entries waiting it
\* returns them at once; with none it blocks on the server; without the group
\* the server answers NOGROUP.
XReadGroup ==
    /\ ConsumerAlive /\ pc = "read"
    /\ \E o \in CtxOutcomes :
         /\ CtxFault(o)
         /\ IF o = "ok" /\ Available
            THEN Deliver
            ELSE /\ pc' = IF o = "ok" /\ groupExists THEN "blocked" ELSE "readErr"
                 /\ UNCHANGED << lastDelivered, pending, batch >>
    /\ UNCHANGED << storeVars, stream, groupExists, mainVars, cur, curOrder, creq,
                    foreign, log >>

\* The blocked XREADGROUP returns entries that arrived meanwhile.
BlockedDeliver ==
    /\ ConsumerAlive /\ pc = "blocked"
    /\ Available
    /\ Deliver
    /\ UNCHANGED << storeVars, stream, groupExists, mainVars, cur, curOrder, creq,
                    foreign, log, faults >>

\* The blocked XREADGROUP runs into Block (one second) with nothing to return:
\* redis.Nil, and `continue`.
BlockedTimeout ==
    /\ ConsumerAlive /\ pc = "blocked"
    /\ ~Available
    /\ pc' = "check"
    /\ UNCHANGED << storeVars, redisVars, mainVars, batch, cur, curOrder, creq,
                    foreign, log, faults >>

\* The blocked XREADGROUP returns an error: the client gave up on the
\* cancelled context, or the connection broke.
BlockedError ==
    /\ ConsumerAlive /\ pc = "blocked"
    /\ cancelled \/ faults < MaxFaults
    /\ faults' = IF cancelled THEN faults ELSE faults + 1
    /\ pc' = "readErr"
    /\ UNCHANGED << storeVars, redisVars, mainVars, batch, cur, curOrder, creq,
                    foreign, log >>

\* A loop that would give up on any read error.
ReadErrorReturns ==
    /\ ConsumerAlive /\ pc = "readErr"
    /\ pc' = "returned"
    /\ UNCHANGED << storeVars, redisVars, mainVars, batch, cur, curOrder, creq,
                    foreign, log, faults >>

\* Subscribe: a read error other than redis.Nil: return if ctx.Err() != nil,
\* else log it and sleep.
ReadError ==
    /\ ConsumerAlive /\ pc = "readErr"
    /\ pc' = IF cancelled THEN "returned" ELSE "backoff"
    /\ UNCHANGED << storeVars, redisVars, mainVars, batch, cur, curOrder, creq,
                    foreign, log, faults >>

\* Subscribe: time.Sleep(time.Second) is over; `continue`.
Backoff ==
    /\ ConsumerAlive /\ pc = "backoff"
    /\ pc' = "check"
    /\ UNCHANGED << storeVars, redisVars, mainVars, batch, cur, curOrder, creq,
                    foreign, log, faults >>

\* Subscribe: the loops over streams and messages are done.
BatchDone ==
    /\ ConsumerAlive /\ pc = "batch"
    /\ batch = << >>
    /\ pc' = "check"
    /\ UNCHANGED << storeVars, redisVars, mainVars, batch, cur, curOrder, creq,
                    foreign, log, faults >>

\* A check that would look at the event field only.
WellFormedEventOnly(msg) == msg.event.type = "string"

\* message.Values["event"].(string) and message.Values["payload"].(string)
WellFormed(msg) == msg.event.type = "string" /\ msg.payload.type = "string"

\* A routing that would hand every kind of event to the handler.
HasHandlerAnyKind(msg) == WellFormed(msg)

\* processMessage routes the message to handleOrderCreated.
HasHandler(msg) == WellFormed(msg) /\ msg.event.val = OrderCreatedChannel

\* processMessage up to the first thing that takes time: the two type
\* assertions, the routing on the event name and, in handleOrderCreated, the
\* json.Unmarshal.  It ends at the ack or at the handler's sleep.
ProcessMessage ==
    /\ ConsumerAlive /\ pc = "batch"
    /\ batch # << >>
    /\ LET m == Head(batch)
           msg == stream[m]
           dec == Unmarshal(msg.payload.val)
       IN  /\ batch' = Tail(batch)
           /\ cur' = m
           /\ IF ~HasHandler(msg)
              THEN /\ log' = Append(log, Ev("start", m))
                   /\ pc' = "ack"
                   /\ UNCHANGED curOrder
              ELSE IF ~dec.ok
              THEN /\ log' = log \o << Ev("start", m), Ev("handler", m) >>
                   /\ pc' = "ack"
                   /\ UNCHANGED curOrder
              ELSE /\ log' = log \o << Ev("start", m), Ev("handler", m) >>
                   /\ pc' = "sleep"
                   /\ curOrder' = dec.order
    /\ UNCHANGED << storeVars, redisVars, mainVars, creq, foreign, faults >>

\* handleOrderCreated: time.Sleep(2 * time.Second) is over.
HandlerSleep ==
    /\ ConsumerAlive /\ pc = "sleep"
    /\ log' = Append(log, Ev("slept", cur))
    /\ pc' = "callback"
    /\ UNCHANGED << storeVars, redisVars, mainVars, batch, cur, curOrder, creq,
                    foreign, faults >>

\* A handler that would pass the order's own status on.
CallbackArgsOwnStatus == [id |-> curOrder.id, status |-> curOrder.status]

\* A handler that would confirm an order only while it is still pending.
CallbackArgsPendingOnly ==
    [id |-> curOrder.id,
     status |-> IF RepoHas(curOrder.id) /\ orders[curOrder.id].status # PendingStatus
                THEN orders[curOrder.id].status
                ELSE ConfirmedStatus]

\* handleOrderCreated: the arguments of c.updater.UpdateOrderStatus.
CallbackArgs == [id |-> curOrder.id, status |-> ConfirmedStatus]

\* A handler that would go back to its delay and try again when the callback
\* fails.
CallbackGetRetries ==
    /\ ConsumerAlive /\ pc = "callback"
    /\ \E o \in CtxOutcomes :
         /\ CtxFault(o)
         /\ IF o = "ok" /\ RepoHas(CallbackArgs.id)
            THEN /\ pc' = "update"
                 /\ curOrder' = [orders[CallbackArgs.id] EXCEPT
                                   !.status = CallbackArgs.status]
                 /\ log' = Append(log, [Ev("callback", cur) EXCEPT
                                          !.id = CallbackArgs.id,
                                          !.status = CallbackArgs.status])
            ELSE /\ pc' = "sleep"
                 /\ UNCHANGED curOrder
                 /\ log' = log \o << [Ev("callback", cur) EXCEPT
                                         !.id = CallbackArgs.id,
                                         !.status = CallbackArgs.status],
                                      [Ev("cbfail", cur) EXCEPT !.id = CallbackArgs.id] >>
    /\ UNCHANGED << storeVars, redisVars, mainVars, batch, cur, creq, foreign >>

\* handleOrderCreated calls UpdateOrderStatus, which starts with repo.GetByID
\* and sets the status on what it read.  Any error ends the handler, which
\* logs it ("cbfail").
CallbackGet ==
    /\ ConsumerAlive /\ pc = "callback"
    /\ \E o \in CtxOutcomes :
         /\ CtxFault(o)
         /\ IF o = "ok" /\ RepoHas(CallbackArgs.id)
            THEN /\ pc' = "update"
                 /\ curOrder' = [orders[CallbackArgs.id] EXCEPT
                                   !.status = CallbackArgs.status]
                 /\ log' = Append(log, [Ev("callback", cur) EXCEPT
                                          !.id = CallbackArgs.id,
                                          !.status = CallbackArgs.status])
            ELSE /\ pc' = "ack"
                 /\ UNCHANGED curOrder
                 /\ log' = log \o << [Ev("callback", cur) EXCEPT
                                         !.id = CallbackArgs.id,
                                         !.status = CallbackArgs.status],
                                      [Ev("cbfail", cur) EXCEPT !.id = CallbackArgs.id] >>
    /\ UNCHANGED << storeVars, redisVars, mainVars, batch, cur, creq, foreign >>

\* UpdateOrderStatus: repo.Update(ctx, order); then the handler returns.
CallbackUpdate ==
    /\ ConsumerAlive /\ pc = "update"
    /\ pc' = "ack"
    /\ \E o \in CtxOutcomes :
         /\ CtxFault(o)
         /\ IF o = "ok" /\ RepoHas(curOrder.id)
            THEN /\ orders' = RepoUpdate(curOrder)
                 /\ UNCHANGED log
            ELSE /\ UNCHANGED orders
                 /\ log' = Append(log, [Ev("cbfail", cur) EXCEPT !.id = curOrder.id])
    /\ UNCHANGED << created, idemKeys, redisVars, mainVars, batch, cur, curOrder, creq,
                    foreign >>

\* An XACK that would leave the pending set as it is.
XAckKeeps(e) == pending

\* XACK's effect on the group.
XAck(e) == pending \ {e}

\* A processMessage that would return without acknowledging.
AckMessageSkipped ==
    /\ ConsumerAlive /\ pc = "ack"
    /\ pc' = "batch"
    /\ cur' = 0
    /\ curOrder' = NoOrder
    /\ log' = Append(log, Ev("end", cur))
    /\ UNCHANGED << storeVars, redisVars, mainVars, batch, creq, foreign, faults >>

\* ackMessage: XAck(ctx, StreamName, ConsumerGroup, id), an error only logged;
\* then processMessage returns.
AckMessage ==
    /\ ConsumerAlive /\ pc = "ack"
    /\ pc' = "batch"
    /\ cur' = 0
    /\ curOrder' = NoOrder
    /\ \E o \in CtxOutcomes :
         /\ CtxFault(o)
         /\ log' = log \o << [Ev("ack", cur) EXCEPT !.ok = (o = "ok")], Ev("end", cur) >>
         /\ pending' = IF o = "ok" THEN XAck(cur) ELSE pending
    /\ UNCHANGED << storeVars, stream, groupExists, lastDelivered, mainVars, batch,
                    creq, foreign >>

\* -------------------------------------------------------------------- main
\* main: a signal arrives on quit; cancel().
Shutdown ==
    /\ mainPc = "serving"
    /\ mainPc' = "stopping"
    /\ cancelled' = TRUE
    /\ UNCHANGED << storeVars, redisVars, consumerVars, creq, foreign, log, faults >>

\* main: GracefulStop, srv.Shutdown, redisClient.Close and return.  Nothing
\* waits for the Subscribe goroutine; the process exit ends every goroutine.
MainExit ==
    /\ mainPc = "stopping"
    /\ mainPc' = "exited"
    /\ creq' = [c \in Clients |-> IdleReq]
    /\ UNCHANGED << storeVars, redisVars, cancelled, consumerVars, foreign, log, faults >>

\* ------------------------------------------------------------ specification
Consumer ==
    \/ GroupCreate \/ LoopCheck \/ XReadGroup
    \/ BlockedDeliver \/ BlockedTimeout \/ BlockedError
    \/ ReadError \/ Backoff \/ BatchDone
    \/ ProcessMessage \/ HandlerSleep \/ CallbackGet \/ CallbackUpdate \/ AckMessage

Service ==
    \E c \in Clients :
        \/ \E req \in CreateRequests : CreateOrder(c, req)
        \/ \E id \in OrderIds, req \in UpdateRequests : UpdateOrderGet(c, id, req)
        \/ UpdateOrderWrite(c)
        \/ \E id \in OrderIds : DeleteOrderGet(c, id)
        \/ DeleteOrderWrite(c)
        \/ ServicePublish(c)
        \/ ServiceReturn(c)

Next ==
    \/ Consumer
    \/ Service
    \/ \E e \in ForeignEntries : ForeignXAdd(e)
    \/ Shutdown
    \/ MainExit

Spec == Init /\ [][Next]_vars

\* The Go scheduler keeps running the Subscribe goroutine while it can step.
FairSpec == Spec /\ WF_vars(Consumer)

\* ------------------------------------------------------------ gRPC transport
\* pb.OrderStatus, by the names of its values.
ProtoStatuses ==
    {"ORDER_STATUS_UNSPECIFIED", "ORDER_STATUS_PENDING", "ORDER_STATUS_CONFIRMED",
     "ORDER_STATUS_CANCELLED"}

\* stringToProtoStatus: the switch on the stored status string.
stringToProtoStatus(s) ==
    CASE s = "pending"   -> "ORDER_STATUS_PENDING"
      [] s = "confirmed" -> "ORDER_STATUS_CONFIRMED"
      [] s = "cancelled" -> "ORDER_STATUS_CANCELLED"
      [] OTHER           -> "ORDER_STATUS_UNSPECIFIED"

\* protoStatusToString: the switch on the enum value.
protoStatusToString(p) ==
    CASE p = "ORDER_STATUS_PENDING"   -> "pending"
      [] p = "ORDER_STATUS_CONFIRMED" -> "confirmed"
      [] p = "ORDER_STATUS_CANCELLED" -> "cancelled"
      [] OTHER                        -> "pending"

\* Server.UpdateOrder (gRPC): the service request built out of the message.
GrpcUpdateRequests ==
    { [product |-> "Phone", quantity |-> 2, status |-> protoStatusToString(p)] :
        p \in ProtoStatuses }

\* ------------------------------------------------- concurrent API requests
\* The HTTP and gRPC servers run every request on a goroutine of its own, so
\* service methods of several callers interleave at their store and transport
\* calls.  Here the service layer is on its own: no entry is consumed and no
\* signal arrives.
Callers == 1 .. MaxCallers

ConcurrentInit ==
    /\ orders = [i \in OrderIds |-> NoOrder]
    /\ created = 0
    /\ idemKeys = << >>
    /\ stream = << >>
    /\ groupExists = FALSE
    /\ lastDelivered = 0
    /\ pending = {}
    /\ mainPc = "serving"
    /\ cancelled = FALSE
    /\ pc = "start"
    /\ batch = << >>
    /\ cur = 0
    /\ curOrder = NoOrder
    /\ creq = [c \in Callers |-> IdleReq]
    /\ foreign = 0
    /\ log = << >>
    /\ faults = 0

\* Update requests come in over HTTP (the JSON body as it is) and over gRPC.
ConcurrentService ==
    \E c \in Callers :
        \/ \E req \in CreateRequests : CreateOrder(c, req)
        \/ \E id \in OrderIds, req \in UpdateRequests \cup GrpcUpdateRequests :
              UpdateOrderGet(c, id, req)
        \/ UpdateOrderWrite(c)
        \/ \E id \in OrderIds : DeleteOrderGet(c, id)
        \/ DeleteOrderWrite(c)
        \/ ServicePublish(c)
        \/ ServiceReturn(c)

ConcurrentSpec == ConcurrentInit /\ [][ConcurrentService]_vars

\* ------------------------------------------------------------- properties
\* Positions in the consumer's history of event ev on entry e.
Pos(ev, e) == { i \in 1 .. Len(log) : log[i].ev = ev /\ log[i].e = e }

\* processMessage was entered / has returned for entry e.
Started(e) == Pos("start", e) # {}
Ended(e)   == Pos("end", e) # {}

InStream(e) == e \in 1 .. Len(stream)

\* Entry e carries both fields as strings.
BothStrings(e) ==
    InStream(e) /\ stream[e].event.type = "string" /\ stream[e].payload.type = "string"

\* Entry e is one RedisPublisher.Publish appended: an event name and the JSON
\* text of an order.
ByPublisher(e) == BothStrings(e) /\ stream[e].payload.val.json

\* Entry e is an order.created entry.
IsCreated(e) ==
    InStream(e) /\ stream[e].event.type = "string" /\ stream[e].event.val = "order.created"

\* C1: at-least-once delivery: while the dispatch loop runs and is not
\* cancelled, every entry Publish appended to the stream is eventually handed
\* to processMessage.
C1_AtLeastOnce ==
    \A e \in EntryIds : ByPublisher(e) ~> (Started(e) \/ cancelled)

\* C5: graceful shutdown: the process does not exit while processMessage is
\* still working on an entry (its handler's delay included).
C5_ExitWaitsForInFlight == mainPc = "exited" => cur = 0

\* C9: entries are processed in append order, one after the other: when
\* processMessage starts on an entry, it has started and returned for every
\* entry appended before it, within one batch and across batches.
C9_AppendOrder ==
    \A e1, e2 \in EntryIds :
        (e1 < e2 /\ Started(e2)) =>
            \E s1 \in Pos("start", e1), f1 \in Pos("end", e1) :
                /\ s1 < f1
                /\ \A s2 \in Pos("start", e2) : f1 < s2

\* Three entries, order.created then order.deleted among them, the last two
\* handed over in one batch after the first was processed in an earlier one.
C9_Witness ==
    /\ Len(stream) = 3
    /\ IsCreated(1)
    /\ stream[2].event.val = "order.deleted"
    /\ Ended(1) /\ cur = 2 /\ batch = << 3 >>

\* C3 as stated: every order.created entry that was processed had the status
\* callback invoked exactly once.
C3_EveryCreatedEntry ==
    \A e \in EntryIds :
        (IsCreated(e) /\ Ended(e)) => Cardinality(Pos("callback", e)) = 1

\* C3, amended: the callback is invoked at most once per entry, always with
\* status "confirmed" and the order id of the payload and only after the delay
\* is over; it is invoked exactly once for every processed order.created entry
\* whose payload is a string that decodes to an order.
C3_DecodableCreatedEntry ==
    \A e \in EntryIds :
        /\ Cardinality(Pos("callback", e)) <= 1
        /\ \A k \in Pos("callback", e) :
              /\ IsCreated(e) /\ ByPublisher(e)
              /\ log[k].status = "confirmed"
              /\ log[k].id = stream[e].payload.val.id
              /\ \E s \in Pos("slept", e) : s < k
        /\ (IsCreated(e) /\ ByPublisher(e) /\ Ended(e)) =>
              Cardinality(Pos("callback", e)) = 1

\* A decodable order.created entry has been processed to the end, and next to
\* it an order.created entry that does not decode.
C3_Witness ==
    \E e, f \in EntryIds :
        /\ IsCreated(e) /\ ByPublisher(e) /\ Ended(e) /\ Pos("callback", e) # {}
        /\ IsCreated(f) /\ ~ByPublisher(f) /\ Ended(f)

\* C4: every entry handed to processMessage has left the group's pending set
\* once processMessage is through with it, whether its handler succeeded or
\* failed, and an entry with a handler is not acknowledged before the handler
\* has returned.
C4_AckedAfterHandler ==
    \A e \in EntryIds :
        /\ Ended(e) => e \notin pending
        /\ \A a \in Pos("ack", e) :
              \A h \in Pos("handler", e) \cup Pos("slept", e) \cup Pos("callback", e) :
                  h < a

\* C7: Subscribe returns only when the context is cancelled, whatever reads,
\* entries, handlers and acknowledgments did before.
C7_ReturnedOnlyIfCancelled == pc = "returned" => cancelled

\* C7, step by step: the loop returns only from its cancellation check or from
\* a read error under a cancelled context; a read error under a live context
\* leads to the backoff pause and from there to the next iteration; the pause
\* is entered from a read error only, so a read that timed out with no data
\* goes straight to the next iteration, which reads again.
C7_Step ==
    /\ (pc # "returned" /\ pc' = "returned") =>
           (cancelled /\ pc \in {"check", "readErr"})
    /\ (pc = "readErr" /\ ~cancelled /\ pc' # pc) => pc' = "backoff"
    /\ (pc = "backoff" /\ pc' # pc) => pc' = "check"
    /\ (pc # "backoff" /\ pc' = "backoff") => pc = "readErr"
    /\ (pc = "blocked" /\ pc' # pc) => pc' \in {"batch", "check", "readErr"}
    /\ (pc = "batch" /\ pc' # pc) => pc' \in {"ack", "sleep", "check"}
    /\ (pc = "ack" /\ pc' # pc) => pc' = "batch"
    /\ (pc = "check" /\ ~cancelled /\ pc' # pc) => pc' = "read"

C7_LoopEndsOnlyOnCancel == []C7_ReturnedOnlyIfCancelled /\ [][C7_Step]_vars

\* The loop is in its backoff pause after a read error, not cancelled, and has
\* processed a malformed entry before.
C7_Witness ==
    /\ pc = "backoff" /\ ~cancelled
    /\ \E e \in EntryIds : InStream(e) /\ ~BothStrings(e) /\ Ended(e)

\* C8: when Publish fails after the store write of CreateOrder / UpdateOrder /
\* DeleteOrder succeeded, the method returns success and the step leaves the
\* store and the stream as they are.
C8_Step ==
    \A c \in Clients :
        (creq[c].step = "publish" /\ creq'[c].step = "return" /\ stream' = stream) =>
            /\ creq'[c].result = "ok"
            /\ creq'[c].wrote /\ ~creq'[c].published
            /\ orders' = orders

C8_PublishFailureKeepsWrite == [][C8_Step]_vars

\* CreateOrder has returned success although its Publish failed, and the
\* order it wrote is in the store.
C8_Witness ==
    \E c \in Clients :
        /\ creq[c].op = "create" /\ creq[c].step = "return"
        /\ creq[c].result = "ok" /\ ~creq[c].published
        /\ orders[creq[c].order.id] = creq[c].order
        /\ stream = << >>

\* C10: an entry whose event or payload field is absent or not a string never
\* reaches a handler, the delay or the status callback: processMessage goes
\* from its start straight to XAck, which removes the entry from the pending
\* set when it succeeds.
C10_MalformedState ==
    \A e \in EntryIds :
        (InStream(e) /\ ~BothStrings(e) /\ Started(e)) =>
            /\ Pos("handler", e) \cup Pos("slept", e) \cup Pos("callback", e) = {}
            /\ \A s \in Pos("start", e) :
                  \/ s = Len(log) /\ cur = e /\ pc = "ack"
                  \/ s < Len(log) /\ log[s + 1].ev = "ack" /\ log[s + 1].e = e
            /\ \A a \in Pos("ack", e) : log[a].ok => e \notin pending

\* C10: after the acknowledgment of a malformed entry the loop goes on with
\* the rest of the batch.
C10_Step ==
    (cur # 0 /\ ~BothStrings(cur) /\ pc = "ack" /\ pc' # pc) =>
        (pc' = "batch" /\ cur' = 0 /\ orders' = orders)

C10_MalformedAcked == []C10_MalformedState /\ [][C10_Step]_vars

\* A malformed entry has been acknowledged and the entry after it processed.
C10_Witness ==
    \E e, f \in EntryIds :
        /\ InStream(e) /\ ~BothStrings(e) /\ Ended(e) /\ e \notin pending
        /\ e < f /\ Ended(f)

\* C6, step by step: once the context is cancelled the loop never moves to
\* the read call, and a read call it was about to make when the cancellation
\* arrived comes back with the context's error before anything is asked of
\* the server: no entry is delivered and the call never blocks.
C6_Step ==
    /\ (cancelled /\ pc # "read") => pc' # "read"
    /\ (cancelled /\ pc # "blocked") => pc' # "blocked"
    /\ (cancelled /\ pc = "read" /\ pc' # pc) =>
           (pc' = "readErr" /\ UNCHANGED << lastDelivered, pending, batch >>)

\* C6: no blocking read is issued after cancellation; a read that is blocked
\* when the cancellation arrives returns and Subscribe then returns (unless
\* the process exits first) without reading again.
C6_NoReadAfterCancel ==
    /\ [][C6_Step]_vars
    /\ (cancelled /\ pc \in {"read", "blocked"}) ~> (pc = "returned" \/ mainPc = "exited")

\* The read call came back with the context's error: no call has failed, yet
\* the loop is at its read-error branch under a cancelled context.
C6_Witness == cancelled /\ pc = "readErr" /\ faults = 0 /\ groupExists

\* The order an order.created entry of the publisher is about (0: none).
OrderOf(e) == IF IsCreated(e) /\ ByPublisher(e) THEN stream[e].payload.val.id ELSE 0

\* What releases the end-to-end scenario of entry e: its order was deleted, a
\* store or transport call failed, or shutdown has begun.
C2_Released(e) == ~RepoHas(OrderOf(e)) \/ faults > 0 \/ cancelled

\* The stored status of the order of entry e is "confirmed".
C2_Confirmed(e) == RepoHas(OrderOf(e)) /\ orders[OrderOf(e)].status = "confirmed"

\* The callback was invoked for entry e with its order's id and "confirmed",
\* and the entry was acknowledged and has left the pending set.
C2_Acknowledged(e) ==
    /\ \E k \in Pos("callback", e) :
          log[k].id = OrderOf(e) /\ log[k].status = "confirmed"
    /\ \E a \in Pos("ack", e) : log[a].ok
    /\ e \notin pending

\* The callback of an entry comes before the entry's acknowledgment.
C2_CallbackBeforeAck ==
    \A e \in EntryIds :
        \A k \in Pos("callback", e), a \in Pos("ack", e) : k < a

\* C2: from the moment the order.created event of a created order is in the
\* stream (and not yet handed to processMessage), unless the order is deleted,
\* a call fails or the service is shut down, the stored status eventually is
\* "confirmed", and the callback eventually has been invoked with
\* (id, "confirmed") and the entry acknowledged; and a callback always
\* precedes its entry's acknowledgment.
C2_EndToEnd ==
    /\ \A e \in EntryIds :
          (OrderOf(e) # 0 /\ ~Started(e)) ~> (C2_Released(e) \/ C2_Confirmed(e))
    /\ \A e \in EntryIds :
          (OrderOf(e) # 0) ~> (C2_Released(e) \/ C2_Acknowledged(e))
    /\ []C2_CallbackBeforeAck

\* An order was created, its event handled and acknowledged and its stored
\* status is "confirmed", with no failure and no shutdown.
C2_Witness ==
    \E e \in EntryIds :
        /\ OrderOf(e) # 0 /\ C2_Acknowledged(e) /\ Ended(e) /\ C2_Confirmed(e)
        /\ faults = 0 /\ ~cancelled

\* Entry e is an order.created entry whose payload is a string that is not
\* the JSON text of an order.
Undecodable(e) == IsCreated(e) /\ BothStrings(e) /\ ~stream[e].payload.val.json

\* C11: an order.created entry whose payload string does not decode never
\* reaches the delay or the status callback: the handler is entered and returns
\* at once, processMessage goes on to XAck straight away, and XAck removes the
\* entry from the pending set when it succeeds.
C11_UndecodableAcked ==
    \A e \in EntryIds :
        (Undecodable(e) /\ Started(e)) =>
            /\ Pos("slept", e) \cup Pos("callback", e) \cup Pos("cbfail", e) = {}
            /\ \A s \in Pos("start", e) :
                  /\ s < Len(log) /\ log[s + 1].ev = "handler" /\ log[s + 1].e = e
                  /\ \/ s + 1 = Len(log) /\ cur = e /\ pc = "ack"
                     \/ s + 1 < Len(log) /\ log[s + 2].ev = "ack" /\ log[s + 2].e = e
            /\ \A a \in Pos("ack", e) : log[a].ok => e \notin pending

\* An undecodable order.created entry has been processed and has left the
\* pending set, and no order was touched.
C11_Witness ==
    \E e \in EntryIds :
        /\ Undecodable(e) /\ Ended(e) /\ e \notin pending
        /\ \A o \in OrderIds : orders[o] = NoOrder

\* Entry e carries an event name other than order.created (and a payload).
OtherKind(e) == BothStrings(e) /\ stream[e].event.val # "order.created"

\* C12: an entry of another kind reaches no handler, no delay and no callback;
\* processMessage goes from its start straight to XAck.
C12_State ==
    \A e \in EntryIds :
        (OtherKind(e) /\ Started(e)) =>
            /\ Pos("handler", e) \cup Pos("slept", e) \cup Pos("callback", e) = {}
            /\ \A s \in Pos("start", e) :
                  \/ s = Len(log) /\ cur = e /\ pc = "ack"
                  \/ s < Len(log) /\ log[s + 1].ev = "ack" /\ log[s + 1].e = e
            /\ \A a \in Pos("ack", e) : log[a].ok => e \notin pending

\* C12: the consumer's steps on an entry of another kind (taking it up,
\* acknowledging it) leave the order store as it is.
C12_Step ==
    /\ (cur = 0 /\ cur' # 0 /\ OtherKind(cur')) => (pc' = "ack" /\ orders' = orders)
    /\ (cur # 0 /\ OtherKind(cur) /\ pc' # pc) =>
           (pc = "ack" /\ pc' = "batch" /\ orders' = orders)

C12_OtherKindsOnlyAcked == []C12_State /\ [][C12_Step]_vars

\* An order.updated and an order.deleted entry have both been processed and
\* have left the pending set.
C12_Witness ==
    \E e, f \in EntryIds :
        /\ OtherKind(e) /\ stream[e].event.val = "order.updated"
        /\ OtherKind(f) /\ stream[f].event.val = "order.deleted"
        /\ Ended(e) /\ Ended(f) /\ {e, f} \cap pending = {}

\* The status callback failed for entry e (the handler logged its error).
CallbackFailed(e) == Pos("cbfail", e) # {}

\* The callback failed for an entry about order o.
FailedFor(o) == \E e \in EntryIds : \E k \in Pos("cbfail", e) : log[k].id = o

\* C13, in every state: an entry is started and its callback invoked at most
\* once (no retry); a failed callback is followed at once by the XAck call,
\* which removes the entry when it succeeds; and the entry is behind the
\* group's cursor and in no batch still to process (no redelivery).
C13_State ==
    \A e \in EntryIds :
        /\ Cardinality(Pos("start", e)) <= 1
        /\ Cardinality(Pos("callback", e)) <= 1
        /\ CallbackFailed(e) =>
              /\ \A k \in Pos("cbfail", e) :
                    \/ k = Len(log) /\ cur = e /\ pc = "ack"
                    \/ k < Len(log) /\ log[k + 1].ev = "ack" /\ log[k + 1].e = e
              /\ \A a \in Pos("ack", e) : log[a].ok => e \notin pending
              /\ e <= lastDelivered
              /\ \A i \in 1 .. Len(batch) : batch[i] # e

\* C13, step by step: after the failed callback the loop goes on with the
\* batch, and no step makes the order's stored status "confirmed".
C13_Step ==
    /\ (cur # 0 /\ CallbackFailed(cur) /\ pc' # pc) => (pc = "ack" /\ pc' = "batch")
    /\ \A o \in OrderIds :
          (FailedFor(o) /\ orders[o].status # "confirmed") =>
              orders'[o].status # "confirmed"

\* C13: a failed status callback is swallowed: the entry is acknowledged all
\* the same, never retried or redelivered, the order is never confirmed
\* afterwards, and the entry after it is still processed (unless the service
\* is shut down).
C13_CallbackFailureSwallowed ==
    /\ []C13_State
    /\ [][C13_Step]_vars
    /\ \A e \in 1 .. (MaxStream - 1) :
          (CallbackFailed(e) /\ InStream(e + 1)) ~> (Started(e + 1) \/ cancelled)

\* The callback failed on a transient error for an order that is still in the
\* store: the entry has left the pending set, the order is still "pending",
\* and a later entry has been processed.
C13_Witness ==
    \E e, f \in EntryIds :
        /\ OrderOf(e) # 0 /\ CallbackFailed(e) /\ Ended(e) /\ e \notin pending
        /\ orders[OrderOf(e)] # NoOrder /\ orders[OrderOf(e)].status = "pending"
        /\ e < f /\ Ended(f)

\* C14, step by step: an order that is gone from the store stays gone; the
\* callback on an order that is gone (at its read or, deleted meanwhile, at
\* its write) ends with the not-found error logged, the store untouched and
\* the handler returning to the acknowledgment.
C14_Step ==
    /\ \A o \in OrderIds :
          (o <= created /\ orders[o] = NoOrder) => orders'[o] = NoOrder
    /\ (pc \in {"callback", "update"} /\ orders[curOrder.id] = NoOrder /\ pc' # pc) =>
          /\ pc' = "ack"
          /\ orders' = orders
          /\ log'[Len(log')].ev = "cbfail" /\ log'[Len(log')].e = cur
    /\ (pc = "ack" /\ pc' # pc) =>
          /\ pc' = "batch"
          /\ \E i \in 1 .. Len(log') : log'[i].ev = "ack" /\ log'[i].e = cur

\* C14, in every state: the failed callback of an entry whose order is absent
\* is followed at once by the entry's XAck, which removes the entry from the
\* pending set when it succeeds.
C14_State ==
    \A e \in EntryIds :
        (OrderOf(e) # 0 /\ orders[OrderOf(e)] = NoOrder) =>
            /\ \A k \in Pos("cbfail", e) :
                  \/ k = Len(log) /\ cur = e /\ pc = "ack"
                  \/ k < Len(log) /\ log[k + 1].ev = "ack" /\ log[k + 1].e = e
            /\ \A a \in Pos("ack", e) : log[a].ok => e \notin pending

C14_DeletedOrderStaysDeleted == []C14_State /\ [][C14_Step]_vars

\* An order was created and deleted before its confirmation ran: with no
\* failure and no shutdown the callback has failed, the entry is acknowledged
\* and the order is absent.
C14_Witness ==
    \E e \in EntryIds :
        /\ OrderOf(e) # 0 /\ orders[OrderOf(e)] = NoOrder
        /\ CallbackFailed(e) /\ Ended(e) /\ e \notin pending
        /\ faults = 0 /\ ~cancelled

\* ----------------------------------------------- a start after an earlier run
\* Order i as an earlier run of the service created it.
LeftOrder(i, status) ==
    [id |-> i, product |-> "Laptop", quantity |-> 1, status |-> status, created_at |-> i]

\* main starts against the database and the Redis an earlier run has used: n
\* orders and their order.created entries are there, the group may exist, with
\* its cursor anywhere in the stream and any of the delivered entries still
\* pending (an order whose entry was acknowledged is "confirmed").
ResumedInit ==
    /\ \E n \in 0 .. MaxLeft, g \in BOOLEAN :
         \E l \in 0 .. (IF g THEN n ELSE 0) :
           \E p \in SUBSET (1 .. l) :
             /\ created = n
             /\ idemKeys = [i \in 1 .. n |-> "k1"]
             /\ orders = [i \in OrderIds |->
                            IF i > n THEN NoOrder
                            ELSE LeftOrder(i, IF i <= l /\ i \notin p THEN ConfirmedStatus
                                              ELSE PendingStatus)]
             /\ stream = [i \in 1 .. n |->
                            PublishEntry(OrderCreatedChannel, LeftOrder(i, PendingStatus))]
             /\ groupExists = g
             /\ lastDelivered = l
             /\ pending = p
    /\ mainPc = "serving"
    /\ cancelled = FALSE
    /\ pc = "start"
    /\ batch = << >>
    /\ cur = 0
    /\ curOrder = NoOrder
    /\ creq = [c \in Clients |-> IdleReq]
    /\ foreign = 0
    /\ log = << >>
    /\ faults = 0

ResumedSpec == ResumedInit /\ [][Next]_vars /\ WF_vars(Consumer)

\* C15, in every state: whenever the server answered the group creation with
\* BUSYGROUP, Subscribe did not take its error branch.
C15_State ==
    \A i \in 1 .. Len(log) :
        (log[i].ev = "group" /\
         log[i].status = "BUSYGROUP Consumer Group name already exists") => log[i].ok

\* C15, step by step: the group-creation step on an existing group leaves the
\* group, its cursor and its pending set as they are and enters the loop.
C15_Step ==
    (pc = "start" /\ groupExists /\ pc' # pc) =>
        /\ pc' = "check"
        /\ groupExists' /\ lastDelivered' = lastDelivered /\ pending' = pending

C15_GroupCreateIdempotent == []C15_State /\ [][C15_Step]_vars

\* Subscribe has run its group creation on a group that existed, with one
\* entry delivered and pending: BUSYGROUP, no error branch, cursor and pending
\* set as before.
C15_Witness ==
    /\ Len(log) = 1 /\ log[1].ev = "group" /\ log[1].ok
    /\ log[1].status = "BUSYGROUP Consumer Group name already exists"
    /\ pc = "check" /\ lastDelivered = 1 /\ pending = {1}

\* C16, step by step: a group that comes into being starts before the first
\* entry with nothing pending; the creation step on an existing group keeps
\* its cursor; and every read that delivers hands out the entries right after
\* the cursor, in order, and moves the cursor past them.
C16_Step ==
    /\ (~groupExists /\ groupExists') => (lastDelivered' = 0 /\ pending' = {})
    /\ (groupExists /\ pc = "start") => lastDelivered' = lastDelivered
    /\ (lastDelivered' # lastDelivered) =>
          /\ groupExists' /\ batch' # << >>
          /\ \A k \in 1 .. Len(batch') : batch'[k] = lastDelivered + k
          /\ lastDelivered' = lastDelivered + Len(batch')

\* C16: a new group starts at the beginning of the stream and an existing one
\* resumes from its cursor; when a group stands at the beginning of a stream
\* that holds entries, a state follows in which every entry of the stream (the
\* stream only grows, so those entries among them) has been handed to
\* processMessage, unless the service is shut down.
C16_GroupStartsAtBeginning ==
    /\ [][C16_Step]_vars
    /\ (groupExists /\ lastDelivered = 0 /\ Len(stream) > 0) ~>
          (cancelled \/ \A e \in 1 .. Len(stream) : Started(e))

\* The group was newly created by this run (no error, no BUSYGROUP) and its
\* first read has handed out two entries from the beginning of the stream.
C16_Witness ==
    /\ Len(log) = 1 /\ log[1].ev = "group" /\ log[1].status = "" /\ log[1].ok
    /\ pc = "batch" /\ batch = << 1, 2 >> /\ lastDelivered = 2

\* Entries processMessage has started on and not returned from.
InProcess == { e \in EntryIds : Started(e) /\ ~Ended(e) }

\* C17: processing is strictly sequential.  At most one entry is in process,
\* and it is the one the consumer holds; from the start of an entry to its end
\* the consumer does nothing for any other entry; and between the starts of
\* two entries lies the XAck of the earlier one, so acknowledgments are issued
\* in processing order.
C17_Sequential ==
    /\ Cardinality(InProcess) <= 1
    /\ InProcess = (IF cur = 0 THEN {} ELSE {cur})
    /\ \A i, j \in 1 .. Len(log) :
          (i < j /\ log[i].ev = "start") =>
              /\ (\A k \in i .. (j - 1) : ~(log[k].ev = "end" /\ log[k].e = log[i].e)) =>
                    (log[j].e = log[i].e /\ log[j].ev # "start")
              /\ log[j].ev = "start" =>
                    \E a \in (i + 1) .. (j - 1) : log[a].ev = "ack" /\ log[a].e = log[i].e
    /\ \A a, b \in 1 .. Len(log) :
          (a < b /\ log[a].ev = "ack" /\ log[b].ev = "ack") =>
              \E i, j \in 1 .. Len(log) :
                  /\ i < a /\ a < j /\ j < b
                  /\ log[i].ev = "start" /\ log[i].e = log[a].e
                  /\ log[j].ev = "start" /\ log[j].e = log[b].e

\* The first entry has been processed and acknowledged and the consumer is in
\* the middle of the second one's handler.
C17_Witness ==
    /\ Ended(1) /\ Pos("ack", 1) # {}
    /\ cur = 2 /\ pc \in {"sleep", "callback", "update"}

\* The order.created entries of the publisher whose order was created under
\* idempotency key k.
CreatedEventsUnder(k) ==
    { e \in EntryIds : OrderOf(e) # 0 /\ idemKeys[OrderOf(e)] = k }

\* C18: CreateOrder calls that carry the same x-idempotency-key leave at most
\* one order in the store and at most one order.created event in the stream.
C18_IdempotentCreate ==
    \A k \in { idemKeys[i] : i \in 1 .. Len(idemKeys) } \ {""} :
        /\ Cardinality({ o \in 1 .. Len(idemKeys) :
                           idemKeys[o] = k /\ orders[o] # NoOrder }) <= 1
        /\ Cardinality(CreatedEventsUnder(k)) <= 1

\* C19, for the step in which CreateOrder's repo.Create succeeds: exactly one
\* row is added; it carries the requested product and quantity, status
\* "pending", a set creation time and a non-empty id that no other order has;
\* it is the order the method goes on with; every other row is as before.
C19_CreateStep ==
    \A c \in Clients :
        (creq[c].op = "idle" /\ creq'[c].op = "create" /\ creq'[c].step = "publish") =>
            \E o \in OrderIds :
                /\ orders[o] = NoOrder /\ orders'[o] # NoOrder
                /\ \E req \in CreateRequests :
                      /\ orders'[o].product = req.product
                      /\ orders'[o].quantity = req.quantity
                /\ orders'[o].status = "pending"
                /\ orders'[o].created_at # 0
                /\ orders'[o].id = o /\ orders'[o].id # 0
                /\ \A p \in OrderIds \ {o} :
                      orders'[p] = orders[p] /\ orders[p].id # orders'[o].id
                /\ creq'[c].order = orders'[o]

\* C19, for the rest of CreateOrder: a create whose repo.Create fails adds
\* nothing, and neither Publish nor the return touches the store.
C19_RestStep ==
    \A c \in Clients :
        /\ (creq[c].op = "idle" /\ creq'[c].op = "create" /\ creq'[c].step = "return") =>
              (orders' = orders /\ creq'[c].result = "err")
        /\ (creq[c].op = "create" /\ creq'[c] # creq[c]) => orders' = orders

C19_CreateAddsOneOrder == [][C19_CreateStep /\ C19_RestStep]_vars

\* A second CreateOrder has just written its order next to the first one.
C19_Witness ==
    \E c \in Clients :
        /\ creq[c].op = "create" /\ creq[c].step = "publish"
        /\ creq[c].order.id = 2 /\ orders[2] = creq[c].order
        /\ orders[1] # NoOrder /\ orders[1].id = 1

\* The event kind the operation of a request has to publish.
KindOf(op) ==
    CASE op = "create" -> "order.created"
      [] op = "update" -> "order.updated"
      [] op = "delete" -> "order.deleted"
      [] OTHER -> ""

\* C20, a request reaches its Publish call only in the step in which its store
\* write succeeds, and that step appends nothing to the stream.
C20_WriteThenPublish ==
    \A c \in Clients :
        (creq[c].step # "publish" /\ creq'[c].step = "publish") =>
            LET r == creq'[c]
            IN  /\ stream' = stream
                /\ r.op = "create" =>
                      (orders[r.order.id] = NoOrder /\ orders'[r.order.id] = r.order)
                /\ r.op = "update" =>
                      (creq[c].step = "write" /\ orders'[r.order.id] = r.order)
                /\ r.op = "delete" =>
                      (creq[c].step = "write" /\ orders[r.order.id] # NoOrder
                                              /\ orders'[r.order.id] = NoOrder)

\* C20, the Publish call: it is made once and the method then returns success;
\* if the call works it appends one entry, of the operation's kind and with the
\* operation's order as payload, and if it fails it appends nothing.
C20_PublishOnce ==
    \A c \in Clients :
        /\ (creq[c].step = "publish" /\ creq'[c] # creq[c] /\ mainPc' = mainPc) =>
              LET r == creq[c]
              IN  /\ creq'[c].step = "return" /\ creq'[c].result = "ok" /\ creq'[c].wrote
                  /\ orders' = orders
                  /\ \/ ~creq'[c].published /\ stream' = stream
                     \/ /\ creq'[c].published
                        /\ Len(stream') = Len(stream) + 1
                        /\ \A i \in 1 .. Len(stream) : stream'[i] = stream[i]
                        /\ LET x == stream'[Len(stream')]
                           IN  /\ x.event.type = "string" /\ x.event.val = KindOf(r.op)
                               /\ x.payload.type = "string" /\ x.payload.val.json
                               /\ x.payload.val.id = r.order.id
                               /\ x.payload.val.product = r.order.product
                               /\ x.payload.val.quantity = r.order.quantity
                               /\ x.payload.val.status = r.order.status
        /\ (creq[c].step # "return" /\ creq'[c].step = "return" /\ creq'[c].result = "ok") =>
              creq[c].step = "publish"

\* C20, an operation whose store read or write fails: no write, no event.
C20_FailedOpSilent ==
    \A c \in Clients :
        (creq[c].step # "return" /\ creq'[c].step = "return" /\ creq'[c].result # "ok") =>
            /\ stream' = stream /\ orders' = orders
            /\ ~creq'[c].wrote /\ ~creq'[c].published

\* C20, every event of the publisher in the stream comes from the Publish call
\* of an operation whose store write was committed.
C20_EventsHaveWrites ==
    (stream' # stream) =>
        /\ Len(stream') = Len(stream) + 1
        /\ LET x == stream'[Len(stream')]
           IN  (x.event.type = "string" /\ x.payload.type = "string" /\ x.payload.val.json) =>
                   \E c \in Clients : creq[c].step = "publish" /\ creq'[c].published

C20_OneEventPerWrite ==
    [][C20_WriteThenPublish /\ C20_PublishOnce /\ C20_FailedOpSilent
         /\ C20_EventsHaveWrites]_vars

\* An order was created, updated and deleted; the stream holds the three
\* events in that order and DeleteOrder has just returned success.
C20_Witness ==
    /\ Len(stream) = 3
    /\ \A e \in 1 .. 3 : ByPublisher(e) /\ stream[e].payload.val.id = 1
    /\ stream[1].event.val = "order.created"
    /\ stream[2].event.val = "order.updated"
    /\ stream[3].event.val = "order.deleted"
    /\ orders[1] = NoOrder
    /\ \E c \in Clients :
          creq[c].op = "delete" /\ creq[c].step = "return" /\ creq[c].published

\* C21, UpdateOrder and DeleteOrder on an id the store has no row for: when
\* the store answers, the method returns the not-found error at once, the
\* store and the stream stay as they are and nothing is published; the only
\* other answer is the store's own failure, with the same frame.
C21_Step ==
    \A c \in Clients :
        (/\ creq[c].op = "idle"
         /\ creq'[c].op \in {"update", "delete"}
         /\ orders[creq'[c].order.id] = NoOrder) =>
            /\ creq'[c].step = "return"
            /\ creq'[c].result = (IF faults' = faults THEN "notfound" ELSE "err")
            /\ ~creq'[c].wrote /\ ~creq'[c].published
            /\ orders' = orders /\ stream' = stream

\* C21, a request that has returned only leaves as a whole: nothing of it runs
\* after the return.
C21_AfterReturn ==
    \A c \in Clients :
        (creq[c].step = "return" /\ creq'[c] # creq[c]) => creq'[c] = IdleReq

C21_MissingIdNotFound == [][C21_Step /\ C21_AfterReturn]_vars

\* DeleteOrder has returned not-found for an id that has no row while the
\* store holds another order, whose creation is the one event in the stream.
C21_Witness ==
    /\ orders[1] # NoOrder /\ orders[2] = NoOrder
    /\ Len(stream) = 1
    /\ \E c \in Clients :
          /\ creq[c].op = "delete" /\ creq[c].order.id = 2
          /\ creq[c].step = "return" /\ creq[c].result = "notfound"

\* The status the handler last asked UpdateOrderStatus to set for entry e.
AskedStatus(e) ==
    LET ks == Pos("callback", e)
    IN  IF ks = {} THEN ""
        ELSE log[CHOOSE k \in ks : \A j \in ks : j <= k].status

\* C22, UpdateOrderStatus (the consumer's callback is its one caller): no step
\* of it appends to the stream or starts a request; on a missing order its read
\* returns not-found, the handler logs the failure and no row changes; on an
\* existing order its write sets the status asked for on that row and leaves
\* every other row alone; a failed write changes nothing.
C22_Step ==
    /\ (pc \in {"callback", "update"} /\ pc' # pc) =>
          /\ stream' = stream /\ creq' = creq
          /\ pc' \in {"update", "ack"}
    /\ (pc = "callback" /\ pc' # pc /\ orders[curOrder.id] = NoOrder) =>
          /\ pc' = "ack" /\ orders' = orders
          /\ log'[Len(log')].ev = "cbfail" /\ log'[Len(log')].id = curOrder.id
    /\ (pc = "callback" /\ pc' = "update") =>
          /\ orders' = orders
          /\ curOrder' = [orders[curOrder.id] EXCEPT !.status = log'[Len(log')].status]
    /\ (pc = "update" /\ pc' # pc) =>
          /\ \A i \in OrderIds : i # curOrder.id => orders'[i] = orders[i]
          /\ \/ /\ orders[curOrder.id] # NoOrder
                /\ log' = log
                /\ orders'[curOrder.id].status = AskedStatus(cur)
                /\ orders'[curOrder.id].id = curOrder.id
             \/ /\ orders' = orders
                /\ log'[Len(log')].ev = "cbfail"
                /\ (orders[curOrder.id] # NoOrder => (cancelled \/ faults' # faults))

C22_StatusSetNoEvent == [][C22_Step]_vars

\* Order 1 was confirmed by the callback, the callback for order 2 found it
\* deleted, no call has failed, and the stream holds the three events of the
\* service and nothing else.
C22_Witness ==
    /\ faults = 0 /\ ~cancelled
    /\ orders[1].status = "confirmed" /\ orders[2] = NoOrder
    /\ FailedFor(2) /\ ~FailedFor(1)
    /\ Len(stream) = 3 /\ \A e \in 1 .. 3 : Ended(e)

\* C23, the write of UpdateOrderStatus changes the status field only: the
\* product and the quantity of every stored row are after it what they were
\* before it, whatever was committed since its read.
C23_WriteStep ==
    (pc = "update" /\ pc' # pc) =>
        \A i \in OrderIds :
            orders[i] # NoOrder =>
                /\ orders'[i].product = orders[i].product
                /\ orders'[i].quantity = orders[i].quantity

C23_StatusWriteKeepsFields == [][C23_WriteStep]_vars

\* C24, the confirmation does not look at the status the order has by then:
\* after the delay the handler always goes on to the callback, the callback
\* asks for "confirmed" whatever the stored status is, and its write stores
\* "confirmed" over it.
C24_Step ==
    /\ (pc = "sleep" /\ pc' # pc) => pc' = "callback"
    /\ (pc = "callback" /\ pc' # pc /\ orders[curOrder.id] # NoOrder
          /\ ~cancelled /\ faults' = faults) =>
          /\ pc' = "update"
          /\ curOrder'.status = "confirmed"
          /\ curOrder'.product = orders[curOrder.id].product
    /\ (pc = "update" /\ pc' # pc /\ orders[curOrder.id] # NoOrder
          /\ ~cancelled /\ faults' = faults) =>
          orders'[curOrder.id].status = "confirmed"

C24_ConfirmationUnconditional == [][C24_Step]_vars

\* UpdateOrder had set order 1 to Phone / shipped before the callback for its
\* order.created entry read it; the callback has just written, and the order
\* is Phone / confirmed.
C24_Witness ==
    /\ pc = "ack" /\ cur = 1 /\ OrderOf(1) = 1
    /\ ~CallbackFailed(1)
    /\ orders[1].product = "Phone"
    /\ orders[1].status = "confirmed"
    /\ Len(stream) >= 2 /\ ByPublisher(2)
    /\ stream[2].event.val = "order.updated"
    /\ stream[2].payload.val.status = "shipped"

\* C25, when Subscribe has returned on cancellation, with no store or transport
\* failure in the whole run, the group's pending set holds no entry.
C25_NothingPendingAtStop == (pc = "returned" /\ faults = 0) => pending = {}

\* Entry e is in the batch the loop has in hand.
InBatch(e) == \E k \in 1 .. Len(batch) : batch[k] = e

\* C26, in every state: an entry has been handed to processMessage at most
\* once, only entries the group has delivered have been, and an entry waiting
\* in the batch has not been yet.
C26_State ==
    \A e \in EntryIds :
        /\ Cardinality(Pos("start", e)) <= 1
        /\ Started(e) => e <= lastDelivered
        /\ InBatch(e) => (~Started(e) /\ e <= lastDelivered)

\* C26, in every step: the group's cursor never moves back (creating the group
\* again does not reset it); a read returns only entries after the cursor;
\* processMessage is started only on the head of the batch; and an entry the
\* group has delivered that the loop does not hold (left by an earlier run, or
\* already processed) is never read or started again and, if it is pending,
\* stays pending.
C26_Step ==
    /\ lastDelivered' >= lastDelivered
    /\ groupExists => groupExists'
    /\ \A e \in EntryIds :
          /\ ((\E k \in 1 .. Len(batch') : batch'[k] = e) /\ ~InBatch(e)) =>
                (e > lastDelivered /\ e <= lastDelivered' /\ e \in pending')
          /\ (\E i \in (Len(log) + 1) .. Len(log') :
                  log'[i].ev = "start" /\ log'[i].e = e) =>
                (batch # << >> /\ Head(batch) = e /\ cur' = e)
          /\ (groupExists /\ e <= lastDelivered /\ ~InBatch(e) /\ cur # e) =>
                /\ ~(\E k \in 1 .. Len(batch') : batch'[k] = e)
                /\ cur' # e
                /\ Len(log') >= Len(log)
                /\ \A i \in (Len(log) + 1) .. Len(log') : log'[i].e # e
                /\ (e \in pending => e \in pending')

C26_AtMostOnceAcrossRuns == []C26_State /\ [][C26_Step]_vars

\* An earlier run left entry 1 delivered and unacknowledged; this run has
\* created its group call, read and fully processed a later entry and is
\* waiting for more: entry 1 is still pending and was never started.
C26_Witness ==
    /\ 1 \in pending /\ ~Started(1)
    /\ lastDelivered >= 2 /\ Ended(2)
    /\ pc = "blocked" /\ ~cancelled

\* The stream entries of the publisher that are about order o.
EventsOf(o) == { e \in 1 .. Len(stream) : ByPublisher(e) /\ stream[e].payload.val.id = o }

\* C27, a consequence of "the events of an order are in the stream in the order
\* its store changes were committed": once every Publish has succeeded and no
\* committed change of order o still waits for its Publish, the last event of o
\* is the one of the last committed change: order.deleted exactly if o is
\* deleted, and else an event with the stored product, quantity and status.
\* (Orders whose order.created event is their first event: the changes that
\* race are UpdateOrder and DeleteOrder calls on an order created before.)
C27_LastEventIsLastCommit ==
    \A o \in OrderIds :
        (/\ faults = 0
         /\ EventsOf(o) # {}
         /\ \A e \in EventsOf(o) :
               (\A f \in EventsOf(o) : e <= f) => stream[e].event.val = "order.created"
         /\ \A c \in DOMAIN creq :
               ~(creq[c].step = "publish" /\ creq[c].order.id = o)) =>
            LET last == CHOOSE e \in EventsOf(o) : \A f \in EventsOf(o) : f <= e
                x == stream[last]
            IN  IF orders[o] = NoOrder
                THEN x.event.val = "order.deleted"
                ELSE /\ x.event.val # "order.deleted"
                     /\ x.payload.val.product = orders[o].product
                     /\ x.payload.val.quantity = orders[o].quantity
                     /\ x.payload.val.status = orders[o].status

\* The history records of Subscribe's XGroupCreateMkStream call.
GroupCalls == { i \in 1 .. Len(log) : log[i].ev = "group" }

\* C28, in every state: group creation has been attempted once when the loop
\* has been entered and not at all before, and never twice; and while the
\* group does not exist nothing has been delivered: no entry is pending, in
\* the batch, in process or started.
C28_State ==
    /\ Cardinality(GroupCalls) = (IF pc = "start" THEN 0 ELSE 1)
    /\ GroupCalls # {} => 1 \in GroupCalls
    /\ ~groupExists =>
          /\ pending = {} /\ batch = << >> /\ cur = 0 /\ lastDelivered = 0
          /\ \A e \in EntryIds : ~Started(e)
          /\ pc \in {"start", "check", "read", "readErr", "backoff", "returned"}

\* C28, in every step: the group comes into being only in the creation step
\* and every creation step, failed or not, leads into the loop; without the
\* group a read ends in an error, an error is followed by the backoff unless
\* the context is cancelled, and the backoff by the next round of the loop.
C28_Step ==
    /\ (groupExists' # groupExists) => (pc = "start" /\ groupExists')
    /\ (pc = "start" /\ pc' # pc) => pc' = "check"
    /\ (pc # "start") => pc' # "start"
    /\ (~groupExists /\ pc = "read" /\ pc' # pc) => pc' = "readErr"
    /\ (~groupExists /\ pc = "readErr" /\ pc' # pc) =>
          pc' = (IF cancelled THEN "returned" ELSE "backoff")
    /\ (~groupExists /\ pc = "backoff" /\ pc' # pc) => pc' = "check"
    /\ (~groupExists /\ pc = "check" /\ pc' # pc) =>
          pc' = (IF cancelled THEN "returned" ELSE "read")

C28_GroupCreatedOnce == []C28_State /\ [][C28_Step]_vars

\* The one creation attempt failed with an error that is not BUSYGROUP; the
\* transport works again (the failure budget is spent), an order.created event
\* is in the stream, and the loop is in its backoff after a failed read, with
\* nothing delivered.
C28_Witness ==
    /\ ~groupExists /\ ~cancelled /\ pc = "backoff"
    /\ faults = MaxFaults
    /\ GroupCalls = {1} /\ ~log[1].ok /\ log[1].status = "connection refused"
    /\ Len(stream) >= 1 /\ IsCreated(1) /\ ByPublisher(1)
    /\ lastDelivered = 0

\* C29, the Publish call of a service method: when it succeeds the stream has
\* one more entry, whose event field is a string, the kind of the operation,
\* and whose payload field is a string, JSON text that decodes to the order
\* published; when it fails the stream is as before.
C29_Step ==
    \A c \in Clients :
        (creq[c].step = "publish" /\ creq'[c].step # "publish" /\ mainPc' = mainPc) =>
            IF creq'[c].published
            THEN /\ Len(stream') = Len(stream) + 1
                 /\ \A i \in 1 .. Len(stream) : stream'[i] = stream[i]
                 /\ LET x == stream'[Len(stream')]
                    IN  /\ x.event.type = "string"
                        /\ x.event.val = KindOf(creq[c].op)
                        /\ x.event.val \in {"order.created", "order.updated", "order.deleted"}
                        /\ x.payload.type = "string"
                        /\ Unmarshal(x.payload.val) = [ok |-> TRUE, order |-> creq[c].order]
            ELSE stream' = stream

\* C29, while no other producer has written, every entry of the stream has
\* both fields as strings and a payload that is JSON.
C29_OnlyPublisher ==
    foreign = 0 => \A e \in 1 .. Len(stream) : ByPublisher(e)

\* C29, the consumer takes no entry of the publisher for malformed: one that
\* it has started it has found to have both fields, and an order.created one
\* has been handed to the handler and, once processed, decoded and delayed.
C29_NotDropped ==
    \A e \in EntryIds :
        (InStream(e) /\ ByPublisher(e) /\ Started(e)) =>
            (stream[e].event.val = "order.created" =>
                /\ Pos("handler", e) # {}
                /\ Ended(e) => Pos("slept", e) # {})

C29_PublishedWellFormed ==
    [](C29_OnlyPublisher /\ C29_NotDropped) /\ [][C29_Step]_vars

\* Only the publisher has written: the stream holds an order.created, an
\* order.updated and an order.deleted entry, all three processed, the first
\* one by the handler.
C29_Witness ==
    /\ foreign = 0 /\ Len(stream) = 3
    /\ \A e \in 1 .. 3 : Ended(e)
    /\ { stream[e].event.val : e \in 1 .. 3 } =
          {"order.created", "order.updated", "order.deleted"}
    /\ Pos("slept", 1) # {}

\* C30, the status of an order UpdateOrder has just written comes back from
\* the gRPC mapping as it is: protoStatusToString(stringToProtoStatus(s)) = s.
C30_StatusRoundTrips ==
    \A c \in DOMAIN creq :
        (creq[c].op = "update" /\ creq[c].step = "publish") =>
            protoStatusToString(stringToProtoStatus(creq[c].order.status))
                = creq[c].order.status
====
